---------------------------- MODULE Spec2Model ----------------------------
(***************************************************************************)
(* Model of src/main.py: the microlensing animation script.                *)
(*                                                                         *)
(* The script's float64 values are modelled as binary floating-point       *)
(* numbers [m, e] (value m * 2^e) with a 30-bit mantissa and truncating    *)
(* arithmetic: every operation of the source (+, -, *, /, sqrt, cos, sin,  *)
(* arccos, comparisons, max) is computed, in the order the source computes *)
(* it, with a relative rounding error of about 2^-29 per operation.        *)
(*                                                                         *)
(* Only({ f(x) : x \in {v} }) is f(v) with v evaluated once.               *)
(***************************************************************************)
EXTENDS Integers, Sequences, FiniteSets, TLC

Only(S) == CHOOSE y \in S : TRUE

(***************************************************************************)
(* Floating point                                                          *)
(***************************************************************************)
LimbBase == 2^15
MantLo == 2^29
MantHi == 2^30

Abs(n) == IF n < 0 THEN -n ELSE n
Sgn(n) == IF n < 0 THEN -1 ELSE IF n > 0 THEN 1 ELSE 0

Zero == [m |-> 0, e |-> 0]
\* The one non-number: m = 0 with e # 0.
NaN == [m |-> 0, e |-> 1]
IsNaN(x) == x.m = 0 /\ x.e # 0

\* Shifts 0 < x.m < 2^31 into [2^29, 2^30), truncating.
RECURSIVE NormMag(_)
NormMag(x) ==
    IF x.m >= MantHi THEN NormMag([m |-> x.m \div 2, e |-> x.e + 1])
    ELSE IF x.m < LimbBase THEN NormMag([m |-> x.m * LimbBase, e |-> x.e - 15])
    ELSE IF x.m < 2^22 THEN NormMag([m |-> x.m * 2^8, e |-> x.e - 8])
    ELSE IF x.m < 2^26 THEN NormMag([m |-> x.m * 2^4, e |-> x.e - 4])
    ELSE IF x.m < MantLo THEN NormMag([m |-> x.m * 2, e |-> x.e - 1])
    ELSE x

\* The float m * 2^e for an integer |m| < 2^31, normalised.
MkFloat(m, e) ==
    Only({ IF v = 0 THEN Zero
           ELSE Only({ [m |-> Sgn(v) * n.m, e |-> n.e] :
                       n \in {NormMag([m |-> Abs(v), e |-> e])} }) : v \in {m} })

FromInt(n) == MkFloat(n, 0)

FNeg(a) == Only({ IF IsNaN(x) THEN NaN ELSE [m |-> -x.m, e |-> x.e] : x \in {a} })
FAbs(a) == Only({ IF IsNaN(x) THEN NaN ELSE [m |-> Abs(x.m), e |-> x.e] : x \in {a} })

\* The 60-bit product of two 30-bit mantissas A and B, by 15-bit limbs, cut
\* to 30 bits, with sign s and exponent e.
MulMant(A, B, s, e) ==
    LET a1  == A \div LimbBase
        a0  == A % LimbBase
        b1  == B \div LimbBase
        b0  == B % LimbBase
        mid == a1 * b0 + a0 * b1 + (a0 * b0) \div LimbBase
        hi  == a1 * b1 + mid \div LimbBase
    IN  IF hi >= MantLo
        THEN [m |-> s * hi, e |-> e + 30]
        ELSE [m |-> s * (2 * hi + (mid % LimbBase) \div (LimbBase \div 2)), e |-> e + 29]

FMul(a, b) ==
    Only({ IF IsNaN(p[1]) \/ IsNaN(p[2]) THEN NaN
           ELSE IF p[1].m = 0 \/ p[2].m = 0 THEN Zero
           ELSE MulMant(Abs(p[1].m), Abs(p[2].m), Sgn(p[1].m) * Sgn(p[2].m),
                        p[1].e + p[2].e) : p \in {<<a, b>>} })

\* One step of long division in base 2^15: for 0 <= r < d, 2^29 <= d < 2^30,
\* the quotient digit q = floor(r * 2^15 / d) and the remainder r * 2^15 - q * d.
\* The estimate from d's leading digit is at most 2 too large.
DivStep(r, d) ==
    LET d1 == d \div LimbBase
        d0 == d % LimbBase
        q  == IF r \div d1 >= LimbBase THEN LimbBase - 1 ELSE r \div d1
        rr == (r - q * d1) * LimbBase - q * d0
    IN  IF rr >= 0 THEN [q |-> q, r |-> rr]
        ELSE IF rr + d >= 0 THEN [q |-> q - 1, r |-> rr + d]
        ELSE [q |-> q - 2, r |-> rr + d + d]

\* floor(r * 2^30 / d) for 0 <= r < d.
LongDiv(r, d) ==
    Only({ s1.q * LimbBase + DivStep(s1.r, d).q : s1 \in {DivStep(r, d)} })

\* |a| / |b| for mantissas A and B, with sign s and exponent e.
DivMant(A, B, s, e) ==
    IF A >= B
    THEN [m |-> s * (MantLo + LongDiv(A - B, B) \div 2), e |-> e - 29]
    ELSE [m |-> s * LongDiv(A, B), e |-> e - 30]

\* Division by zero is not modelled as inf: it yields NaN here, and is shown
\* not to happen in the script's runs.
FDiv(a, b) ==
    Only({ IF IsNaN(p[1]) \/ IsNaN(p[2]) \/ p[2].m = 0 THEN NaN
           ELSE IF p[1].m = 0 THEN Zero
           ELSE DivMant(Abs(p[1].m), Abs(p[2].m), Sgn(p[1].m) * Sgn(p[2].m),
                        p[1].e - p[2].e) : p \in {<<a, b>>} })

\* big + small for big.e >= small.e: small is shifted to big's exponent.
AddAligned(big, small) ==
    IF big.e - small.e > 30 THEN big
    ELSE MkFloat(big.m + Sgn(small.m) * (Abs(small.m) \div 2^(big.e - small.e)), big.e)

FAdd(a, b) ==
    Only({ IF IsNaN(p[1]) \/ IsNaN(p[2]) THEN NaN
           ELSE IF p[1].m = 0 THEN p[2]
           ELSE IF p[2].m = 0 THEN p[1]
           ELSE IF p[1].e >= p[2].e THEN AddAligned(p[1], p[2])
           ELSE AddAligned(p[2], p[1]) : p \in {<<a, b>>} })

FSub(a, b) == FAdd(a, FNeg(b))

\* a < b for two numbers.
LtNum(a, b) ==
    IF Sgn(a.m) # Sgn(b.m) THEN Sgn(a.m) < Sgn(b.m)
    ELSE IF a.m = 0 THEN FALSE
    ELSE IF a.m > 0 THEN a.e < b.e \/ (a.e = b.e /\ a.m < b.m)
    ELSE a.e > b.e \/ (a.e = b.e /\ a.m < b.m)

\* a < b; false when either is NaN, as in IEEE 754.
FLt(a, b) ==
    \E p \in {<<a, b>>} : ~IsNaN(p[1]) /\ ~IsNaN(p[2]) /\ LtNum(p[1], p[2])
FGt(a, b) == FLt(b, a)
FLe(a, b) ==
    \E p \in {<<a, b>>} : ~IsNaN(p[1]) /\ ~IsNaN(p[2]) /\ ~LtNum(p[2], p[1])
FGe(a, b) == FLe(b, a)

\* A decimal literal n/d of the source, rounded to a float.
Dec(n, d) == FDiv(FromInt(n), FromInt(d))

One == FromInt(1)
Two == FromInt(2)
Half == Dec(1, 2)

RECURSIVE ISqrtIter(_, _)
ISqrtIter(n, x) ==
    LET y == (x + n \div x) \div 2
    IN  IF y >= x THEN x ELSE ISqrtIter(n, y)

\* The integer square root of a's mantissa, as a first estimate of sqrt(a).
SqrtSeed(a) ==
    IF a.e % 2 = 0
    THEN MkFloat(ISqrtIter(a.m, LimbBase), a.e \div 2)
    ELSE MkFloat(ISqrtIter(a.m \div 2, LimbBase), (a.e + 1) \div 2)

\* One step of Newton's iteration for sqrt(a).
SqrtStep(a, x) ==
    Only({ FMul(Half, FAdd(p[2], FDiv(p[1], p[2]))) : p \in {<<a, x>>} })

\* np.sqrt: NaN for a negative argument; otherwise two steps of Newton's
\* iteration from the seed.
FSqrt(a) ==
    Only({ IF IsNaN(v) \/ v.m < 0 THEN NaN
           ELSE IF v.m = 0 THEN Zero
           ELSE SqrtStep(v, SqrtStep(v, SqrtSeed(v))) : v \in {a} })

(***************************************************************************)
(* numpy's elementary functions                                            *)
(***************************************************************************)
\* np.pi, to 30 bits.
PI == [m |-> 843314856, e |-> -28]
HalfPI == [m |-> 843314856, e |-> -29]

\* The integer part of a float 0 <= y < 2^30.
Floor(y) ==
    IF y.m = 0 \/ y.e < -30 THEN 0
    ELSE IF y.e >= 0 THEN y.m * 2^(y.e)
    ELSE y.m \div 2^(-y.e)

\* The integer nearest to a float x >= 0.
RoundInt(x) == Only({ Floor(y) : y \in {FAdd(x, Half)} })

\* One more term of a Taylor series: s.term is the latest term, s.sum the sum
\* so far, and the next term is -s.term * r2 / ((k + 1)(k + 2)).
TaylorStep(s) ==
    Only({ [r2 |-> s.r2, term |-> nxt, sum |-> FAdd(s.sum, nxt), k |-> s.k + 2,
            last |-> s.last] :
           nxt \in {FNeg(FDiv(FMul(s.term, s.r2), FromInt((s.k + 1) * (s.k + 2))))} })

RECURSIVE Taylor(_)
Taylor(state) ==
    Only({ IF s.k > s.last THEN s.sum ELSE Taylor(TaylorStep(s)) : s \in {state} })

\* cos(r) and sin(r) for |r| <= pi/4.
CosSeries(r) ==
    Taylor([r2 |-> FMul(r, r), term |-> One, sum |-> One, k |-> 0, last |-> 14])
SinSeries(r) ==
    Taylor([r2 |-> FMul(r, r), term |-> r, sum |-> r, k |-> 1, last |-> 13])

\* Argument reduction: y = q pi/2 + r with |r| <= pi/4, for y >= 0.
Quadrant(y) == RoundInt(FDiv(y, HalfPI))
Reduce(y) ==
    Only({ [q |-> q % 4, r |-> FSub(y, FMul(FromInt(q), HalfPI))] : q \in {Quadrant(y)} })

\* cos(q pi/2 + r) and sin(q pi/2 + r).
CosAt(reduced) ==
    Only({ CASE s.q = 0 -> CosSeries(s.r)
             [] s.q = 1 -> FNeg(SinSeries(s.r))
             [] s.q = 2 -> FNeg(CosSeries(s.r))
             [] s.q = 3 -> SinSeries(s.r) : s \in {reduced} })
SinAt(reduced) ==
    Only({ CASE s.q = 0 -> SinSeries(s.r)
             [] s.q = 1 -> CosSeries(s.r)
             [] s.q = 2 -> FNeg(SinSeries(s.r))
             [] s.q = 3 -> FNeg(CosSeries(s.r)) : s \in {reduced} })

\* np.cos
FCos(x) == Only({ IF IsNaN(y) THEN NaN ELSE CosAt(Reduce(y)) : y \in {FAbs(x)} })

\* np.sin
FSin(x) ==
    Only({ IF IsNaN(v) THEN NaN
           ELSE IF v.m < 0 THEN FNeg(SinAt(Reduce(FNeg(v))))
           ELSE SinAt(Reduce(v)) : v \in {x} })

\* One more term of arcsin(s) = s + sum_{n>=1} c_n s^(2n+1),
\* c_n = c_(n-1) (2n-1)^2 / (2n (2n+1)).
AsinStep(s) ==
    Only({ [s2 |-> s.s2, term |-> nxt, sum |-> FAdd(s.sum, nxt), prev |-> s.sum,
            n |-> s.n + 1] :
           nxt \in {FDiv(FMul(FMul(s.term, s.s2), FromInt((2 * s.n - 1) * (2 * s.n - 1))),
                         FromInt(2 * s.n * (2 * s.n + 1)))} })

\* The series is summed until a term no longer changes the sum.
MaxAsinTerms == 2^4
RECURSIVE AsinSum(_)
AsinSum(state) ==
    Only({ IF s.sum = s.prev \/ s.n > MaxAsinTerms THEN s.sum ELSE AsinSum(AsinStep(s)) :
           s \in {state} })

\* arcsin(s) for s^2 <= 1/4.
ArcSin(s) ==
    Only({ IF v.m = 0 THEN v
           ELSE AsinSum([s2 |-> FMul(v, v), term |-> v, sum |-> v, prev |-> Zero, n |-> 1]) :
           v \in {s} })

\* np.arccos on [-1, 1]: pi/2 - arcsin(x) for |x| < 1/2, and by the half-angle
\* identity arccos(x) = 2 arcsin(sqrt((1 - x) / 2)) for x >= 1/2,
\* pi - arccos(-x) for x <= -1/2.
ArcCos(x) ==
    Only({ IF IsNaN(v) THEN NaN
           ELSE IF FGe(v, Half)
           THEN FMul(Two, ArcSin(FSqrt(FDiv(FSub(One, v), Two))))
           ELSE IF FLe(v, FNeg(Half))
           THEN FSub(PI, FMul(Two, ArcSin(FSqrt(FDiv(FAdd(One, v), Two)))))
           ELSE FSub(HalfPI, ArcSin(v)) : v \in {x} })

\* np.clip(x, lo, hi)
Clip(x, lo, hi) ==
    Only({ IF FLt(p[1], p[2]) THEN p[2] ELSE IF FGt(p[1], p[3]) THEN p[3] ELSE p[1] :
           p \in {<<x, lo, hi>>} })

\* np.radians(deg) for a float deg
Radians(deg) == FMul(deg, FDiv(PI, FromInt(180)))

\* Vectors are pairs <<x, y>> of floats.
VSub(p, q) == Only({ <<FSub(a[1][1], a[2][1]), FSub(a[1][2], a[2][2])>> : a \in {<<p, q>>} })
VAdd(p, q) == Only({ <<FAdd(a[1][1], a[2][1]), FAdd(a[1][2], a[2][2])>> : a \in {<<p, q>>} })
VScale(k, p) == Only({ <<FMul(a[1], a[2][1]), FMul(a[1], a[2][2])>> : a \in {<<k, p>>} })
VDivS(p, k) == Only({ <<FDiv(a[1][1], a[2]), FDiv(a[1][2], a[2])>> : a \in {<<p, k>>} })
\* np.dot
Dot(p, q) ==
    Only({ FAdd(FMul(a[1][1], a[2][1]), FMul(a[1][2], a[2][2])) : a \in {<<p, q>>} })
\* np.linalg.norm
Norm(p) == Only({ FSqrt(FAdd(FMul(a[1], a[1]), FMul(a[2], a[2]))) : a \in {p} })

(***************************************************************************)
(* The simulation constants and calculate_magnification                    *)
(***************************************************************************)
R_ORBIT == FromInt(5)
R_OBSERVER_DIST == FromInt(10)

\* The literals of calculate_magnification.
ReferenceMassRatio == Dec(1, 1000)
MinU == Dec(5, 1000)
CutoffU == FromInt(3)
NearMargin == Dec(1, 10)
FarMargin == Dec(11, 10)

\* Here and below, a definition is preceded by variants of it with one
\* plausible slip each, which the properties at the end of the module must
\* tell from it.  A baseline of 0.0:
NoLensingZero == Zero

\* What lines 53 and 89 return.
NoLensing == One

\* The gate without the test of the projection.
AngleOnlyGate(alignment_angle, angular_tolerance_rad, proj_on_los_length, dist_obs_to_star) ==
    FLt(alignment_angle, angular_tolerance_rad)

\* Lines 87-88: the condition under which the call goes on to amplify.
AlignmentGate(alignment_angle, angular_tolerance_rad, proj_on_los_length, dist_obs_to_star) ==
    /\ FLt(alignment_angle, angular_tolerance_rad)
    /\ FLt(FMul(NearMargin, dist_obs_to_star), proj_on_los_length)
    /\ FLt(proj_on_los_length, FMul(FarMargin, dist_obs_to_star))

\* No floor.
FloorDropped(u) == u

\* Lines 93-94.
FloorU(u) == Only({ IF FLt(v, MinU) THEN MinU ELSE v : v \in {u} })

\* Lines 96 and 107: A(u) = (u^2 + 2) / (u sqrt(u^2 + 4)).
PointLens(u) ==
    Only({ FDiv(FAdd(FMul(v, v), Two), FMul(v, FSqrt(FAdd(FMul(v, v), FromInt(4))))) :
           v \in {u} })

\* The mass factor upside down.
RescaleInverted(magnification, scaling_factor, planet_mass_ratio) ==
    FAdd(One, FMul(FMul(FSub(magnification, One), scaling_factor),
                   FDiv(ReferenceMassRatio, planet_mass_ratio)))

\* Line 112.
Rescale(magnification, scaling_factor, planet_mass_ratio) ==
    FAdd(One, FMul(FMul(FSub(magnification, One), scaling_factor),
                   FDiv(planet_mass_ratio, ReferenceMassRatio)))

\* No cutoff.
CutoffDropped(u, magnification) == magnification

\* Lines 115-116.
Cutoff(u, magnification) == IF FGt(u, CutoffU) THEN One ELSE magnification

\* np.maximum in place of max: NaN when either is NaN.
NanMax(a, b) ==
    Only({ IF IsNaN(p[1]) \/ IsNaN(p[2]) THEN NaN
           ELSE IF FGt(p[2], p[1]) THEN p[2] ELSE p[1] : p \in {<<a, b>>} })

\* Python's max(a, b): b when b > a, else a (so max(1.0, nan) is 1.0).
PyMax(a, b) == Only({ IF FGt(p[2], p[1]) THEN p[2] ELSE p[1] : p \in {<<a, b>>} })

\* The local variables of a call of calculate_magnification on entry (lines
\* 25-26).  ret is the line the call has returned from (0: it is running) and
\* result the value returned; norm_obs_to_star and norm_obs_to_planet are the
\* divisors of lines 30 and 65; a local not yet assigned is NaN.
NoVec == <<NaN, NaN>>
Enter(planet_pos, observer_pos, star_pos, planet_mass_ratio) ==
    [ planet_pos |-> planet_pos, observer_pos |-> observer_pos, star_pos |-> star_pos,
      planet_mass_ratio |-> planet_mass_ratio, magnification |-> One,
      vec_obs_to_star |-> NoVec, norm_obs_to_star |-> NaN, unit_obs_to_star |-> NoVec,
      vec_obs_to_planet |-> NoVec, proj_on_los_length |-> NaN,
      closest_point_on_los |-> NoVec, perpendicular_dist |-> NaN,
      einstein_radius_visual_proxy |-> NaN, u |-> NaN, norm_obs_to_planet |-> NaN,
      dot_product |-> NaN, alignment_angle |-> NaN, angular_tolerance_rad |-> NaN,
      dist_obs_to_star |-> NaN, gate |-> FALSE, target_gain_for_jupiter |-> NaN,
      base_u_mag |-> NaN, scaling_factor |-> NaN, ret |-> 0, result |-> NaN ]

\* The statements of calculate_magnification, by line: each maps the locals
\* before it to the locals after it, and changes nothing once the call has returned.
L29(env) ==
    Only({ [s EXCEPT !.vec_obs_to_star = VSub(s.star_pos, s.observer_pos)] : s \in {env} })
L30a(env) ==
    Only({ [s EXCEPT !.norm_obs_to_star = Norm(s.vec_obs_to_star)] : s \in {env} })
L30(env) ==
    Only({ [s EXCEPT !.unit_obs_to_star = VDivS(s.vec_obs_to_star, s.norm_obs_to_star)] :
           s \in {L30a(env)} })
L33(env) ==
    Only({ [s EXCEPT !.vec_obs_to_planet = VSub(s.planet_pos, s.observer_pos)] : s \in {env} })
L42(env) ==
    Only({ [s EXCEPT !.proj_on_los_length = Dot(s.vec_obs_to_planet, s.unit_obs_to_star)] :
           s \in {env} })
L45(env) ==
    Only({ [s EXCEPT !.closest_point_on_los =
                         VAdd(s.observer_pos, VScale(s.proj_on_los_length, s.unit_obs_to_star))] :
           s \in {env} })
L46(env) ==
    Only({ [s EXCEPT !.perpendicular_dist = Norm(VSub(s.planet_pos, s.closest_point_on_los))] :
           s \in {env} })
L51(env) ==
    Only({ [s EXCEPT !.einstein_radius_visual_proxy =
                         FMul(MinU, FSqrt(FDiv(s.planet_mass_ratio, ReferenceMassRatio)))] :
           s \in {env} })
L53(env) ==
    Only({ IF FLe(s.einstein_radius_visual_proxy, Zero)
           THEN [s EXCEPT !.ret = 53, !.result = NoLensing]
           ELSE s : s \in {env} })
L55(env) ==
    Only({ IF s.ret # 0 THEN s
           ELSE [s EXCEPT !.u = FDiv(s.perpendicular_dist, s.einstein_radius_visual_proxy)] :
           s \in {env} })
L65a(env) ==
    Only({ IF s.ret # 0 THEN s
           ELSE [s EXCEPT !.norm_obs_to_planet = Norm(s.vec_obs_to_planet)] : s \in {env} })
L65(env) ==
    Only({ IF s.ret # 0 THEN s
           ELSE [s EXCEPT !.dot_product =
                     Dot(s.unit_obs_to_star, VDivS(s.vec_obs_to_planet, s.norm_obs_to_planet))] :
           s \in {L65a(env)} })
L66(env) ==
    Only({ IF s.ret # 0 THEN s
           ELSE [s EXCEPT !.alignment_angle = ArcCos(Clip(s.dot_product, FNeg(One), One))] :
           s \in {env} })
L70(env) ==
    Only({ IF s.ret # 0 THEN s
           ELSE [s EXCEPT !.angular_tolerance_rad = Radians(Dec(5, 10))] : s \in {env} })
L82(env) ==
    Only({ IF s.ret # 0 THEN s
           ELSE [s EXCEPT !.dist_obs_to_star = Norm(s.vec_obs_to_star)] : s \in {env} })
L87(env) ==
    Only({ IF s.ret # 0 THEN s
           ELSE IF AlignmentGate(s.alignment_angle, s.angular_tolerance_rad,
                                 s.proj_on_los_length, s.dist_obs_to_star)
           THEN [s EXCEPT !.gate = TRUE]
           ELSE [s EXCEPT !.ret = 89, !.result = NoLensing] : s \in {env} })
L93(env) ==
    Only({ IF s.ret # 0 THEN s ELSE [s EXCEPT !.u = FloorU(s.u)] : s \in {env} })
L96(env) ==
    Only({ IF s.ret # 0 THEN s ELSE [s EXCEPT !.magnification = PointLens(s.u)] :
           s \in {env} })
L104(env) ==
    Only({ IF s.ret # 0 THEN s ELSE [s EXCEPT !.target_gain_for_jupiter = Dec(15, 100)] :
           s \in {env} })
L107(env) ==
    Only({ IF s.ret # 0 THEN s ELSE [s EXCEPT !.base_u_mag = PointLens(MinU)] : s \in {env} })
L110(env) ==
    Only({ IF s.ret # 0 THEN s
           ELSE [s EXCEPT !.scaling_factor =
                     FDiv(FDiv(s.target_gain_for_jupiter, FSub(s.base_u_mag, One)),
                          FDiv(ReferenceMassRatio, ReferenceMassRatio))] : s \in {env} })
L112(env) ==
    Only({ IF s.ret # 0 THEN s
           ELSE [s EXCEPT !.magnification =
                     Rescale(s.magnification, s.scaling_factor, s.planet_mass_ratio)] :
           s \in {env} })
L115(env) ==
    Only({ IF s.ret # 0 THEN s
           ELSE [s EXCEPT !.magnification = Cutoff(s.u, s.magnification)] : s \in {env} })
L118(env) ==
    Only({ IF s.ret # 0 THEN s
           ELSE [s EXCEPT !.ret = 118, !.result = PyMax(One, s.magnification)] : s \in {env} })

\* One call of calculate_magnification: its locals when it returns.
Call(planet_pos, observer_pos, star_pos, planet_mass_ratio) ==
    L118(L115(L112(L110(L107(L104(L96(L93(L87(L82(L70(L66(L65(L55(L53(L51(L46(L45(L42(
    L33(L30(L29(Enter(planet_pos, observer_pos, star_pos, planet_mass_ratio)
    ))))))))))))))))))))))

calculate_magnification(planet_pos, observer_pos, star_pos, planet_mass_ratio) ==
    Call(planet_pos, observer_pos, star_pos, planet_mass_ratio).result

\* Lines 135-137: the planet's position at time step t.
PlanetPos(t, orbital_period) ==
    Only({ <<FMul(R_ORBIT, FCos(angle_val)), FMul(R_ORBIT, FSin(angle_val))>> :
           angle_val \in {FDiv(FMul(FMul(Two, PI), FromInt(t)), FromInt(orbital_period))} })

\* The frame one step ahead of the sample.
FramePlanetPosShifted(t, orbital_period) == PlanetPos(t + 1, orbital_period)

\* Lines 196-198: the planet drawn in frame t.
FramePlanetPos(t, orbital_period) ==
    Only({ <<FMul(R_ORBIT, FCos(angle)), FMul(R_ORBIT, FSin(angle))>> :
           angle \in {FDiv(FMul(FMul(Two, PI), FromInt(t)), FromInt(orbital_period))} })

\* Sine and cosine exchanged.
ObserverPosSwapped(observer_angle_deg) ==
    Only({ <<FMul(R_OBSERVER_DIST, FSin(observer_angle_rad)),
             FMul(R_OBSERVER_DIST, FCos(observer_angle_rad))>> :
           observer_angle_rad \in {Radians(FromInt(observer_angle_deg))} })
\* The observer on the planet's orbit.
ObserverPosOnOrbit(observer_angle_deg) ==
    Only({ <<FMul(R_ORBIT, FCos(observer_angle_rad)),
             FMul(R_ORBIT, FSin(observer_angle_rad))>> :
           observer_angle_rad \in {Radians(FromInt(observer_angle_deg))} })

\* Lines 126-129.
ObserverPos(observer_angle_deg) ==
    Only({ <<FMul(R_OBSERVER_DIST, FCos(observer_angle_rad)),
             FMul(R_OBSERVER_DIST, FSin(observer_angle_rad))>> :
           observer_angle_rad \in {Radians(FromInt(observer_angle_deg))} })

\* Line 130.
star_pos == <<Zero, Zero>>

(***************************************************************************)
(* The script                                                              *)
(***************************************************************************)
VARIABLES
    pc,                  \* where the script is: "setup", "sample", "frames", "done", "error"
    orbital_period,      \* line 12
    planet_mass_ratio,   \* line 14
    observer_angle_deg,  \* line 15
    observer_pos,        \* line 129
    t_val,               \* the next time step of the loop of line 134
    planet_pos,          \* lines 136-137: the position passed to the latest call
    sampled,             \* the positions passed to calculate_magnification so far
    all_magnifications,  \* line 133
    call,                \* the locals of the latest call of calculate_magnification
    min_mag, max_mag,    \* lines 144-148
    t,                   \* the next time step of the loop of line 195
    frames_data,         \* line 122: per frame, its name, the planet drawn, the curve's length
    error,               \* the exception that ended the script, "" if none
    heavier,             \* auxiliary: a second mass ratio, not below planet_mass_ratio
    call_heavier,        \* auxiliary: the latest call repeated with it
    peak, peak_heavier   \* auxiliary: the largest result so far under either mass ratio

vars == <<pc, orbital_period, planet_mass_ratio, observer_angle_deg, observer_pos,
          t_val, planet_pos, sampled, all_magnifications, call, min_mag, max_mag, t,
          frames_data, error, heavier, call_heavier, peak, peak_heavier>>

\* The sliders' limits (lines 12, 14, 15); the mass ratio in millionths.
PeriodMin == 200
PeriodMax == 1000
MassMinMicro == 1
MassMaxMicro == 2000
AngleMin == 0
AngleMax == 360

MassRatio(micro) == Dec(micro, 10^6)

\* The slider settings explored:
\* <<period, mass ratio (millionths), observer angle, heavier mass ratio (millionths)>>.
NumConfigs == 9
ConfigChoices ==
    << <<400, 100, 90, 1000>>,   \* the sliders' defaults
       <<400, 100, 1, 200>>,
       <<200, 1, 45, 2>>,
       <<1000, 2000, 7, 2000>>,
       <<200, 2000, 0, 2000>>,
       <<200, 1000, 2, 2000>>,
       <<250, 500, 180, 501>>,
       <<300, 1500, 120, 1501>>,
       <<200, 10, 135, 1999>>,
       <<200, 2000, 360, 2000>>,
       <<240, 1000, 270, 1001>> >>
SliderConfigs ==
    { c \in { ConfigChoices[i] : i \in 1..NumConfigs } :
        /\ c[1] \in PeriodMin..PeriodMax
        /\ c[2] \in MassMinMicro..MassMaxMicro
        /\ c[3] \in AngleMin..AngleMax
        /\ c[4] \in c[2]..MassMaxMicro }

NoCall == [ret |-> 0]

InitWith(configs) ==
    /\ pc = "setup"
    /\ \E c \in configs :
         /\ orbital_period = c[1]
         /\ planet_mass_ratio = MassRatio(c[2])
         /\ observer_angle_deg = c[3]
         /\ heavier = MassRatio(c[4])
    /\ observer_pos = star_pos
    /\ t_val = 0
    /\ planet_pos = star_pos
    /\ sampled = <<>>
    /\ all_magnifications = <<>>
    /\ call = NoCall
    /\ min_mag = Zero
    /\ max_mag = Zero
    /\ t = 0
    /\ frames_data = <<>>
    /\ error = ""
    /\ call_heavier = NoCall
    /\ peak = Zero
    /\ peak_heavier = Zero

Init == InitWith(SliderConfigs)

\* Lines 122-133.
Setup ==
    /\ pc = "setup"
    /\ observer_pos' = ObserverPos(observer_angle_deg)
    /\ all_magnifications' = <<>>
    /\ frames_data' = <<>>
    /\ t_val' = 0
    /\ pc' = "sample"
    /\ UNCHANGED <<orbital_period, planet_mass_ratio, observer_angle_deg, planet_pos,
                   sampled, call, min_mag, max_mag, t, error, heavier, call_heavier,
                   peak, peak_heavier>>

\* Lines 134-140: one iteration over times = np.arange(orbital_period).
ComputeSample ==
    /\ pc = "sample"
    /\ t_val < orbital_period
    /\ \E planet \in {PlanetPos(t_val, orbital_period)} :
       \E c \in {Call(planet, observer_pos, star_pos, planet_mass_ratio)} :
       \E h \in {Call(planet, observer_pos, star_pos, heavier)} :
           /\ planet_pos' = planet
           /\ call' = c
           /\ sampled' = Append(sampled, planet)
           /\ all_magnifications' = Append(all_magnifications, c.result)
           /\ call_heavier' = h
           /\ peak' = PyMax(peak, c.result)
           /\ peak_heavier' = PyMax(peak_heavier, h.result)
    /\ t_val' = t_val + 1
    /\ UNCHANGED <<pc, orbital_period, planet_mass_ratio, observer_angle_deg, observer_pos,
                   min_mag, max_mag, t, frames_data, error, heavier>>

\* Python's min and max of a non-empty list of floats.
Values(seq) == { seq[i] : i \in 1..Len(seq) }
PyMin(seq) == CHOOSE x \in Values(seq) : \A y \in Values(seq) : ~FLt(y, x)
PyMaxOf(seq) == CHOOSE x \in Values(seq) : \A y \in Values(seq) : ~FGt(y, x)

\* Lines 144-148.
AxisMin(seq) ==
    Only({ IF FGt(lo, Dec(99, 100)) THEN Dec(99, 100) ELSE lo :
           lo \in {FMul(PyMin(seq), Dec(99, 100))} })
AxisMax(seq) ==
    Only({ IF FLt(hi, Dec(101, 100)) THEN Dec(101, 100) ELSE hi :
           hi \in {FMul(PyMaxOf(seq), Dec(101, 100))} })

\* Lines 142-191, once the loop is over: min() of an empty list raises ValueError.
AxisRange ==
    /\ pc = "sample"
    /\ t_val >= orbital_period
    /\ IF all_magnifications = <<>>
       THEN /\ pc' = "error"
            /\ error' = "ValueError"
            /\ UNCHANGED <<min_mag, max_mag>>
       ELSE /\ min_mag' = AxisMin(all_magnifications)
            /\ max_mag' = AxisMax(all_magnifications)
            /\ pc' = "frames"
            /\ UNCHANGED error
    /\ t' = 0
    /\ UNCHANGED <<orbital_period, planet_mass_ratio, observer_angle_deg, observer_pos,
                   t_val, planet_pos, sampled, all_magnifications, call, frames_data,
                   heavier, call_heavier, peak, peak_heavier>>

\* Python's seq[:n]: its length.
SliceLen(seq, n) == IF n <= Len(seq) THEN n ELSE Len(seq)

\* Lines 195-218: frame t draws the planet at step t and the light curve
\* times[:t+1], all_magnifications[:t+1].
BuildFrame ==
    /\ pc = "frames"
    /\ t < orbital_period
    /\ frames_data' = Append(frames_data,
                             [ name   |-> t,
                               planet |-> FramePlanetPos(t, orbital_period),
                               curve  |-> SliceLen(all_magnifications, t + 1) ])
    /\ t' = t + 1
    /\ UNCHANGED <<pc, orbital_period, planet_mass_ratio, observer_angle_deg, observer_pos,
                   t_val, planet_pos, sampled, all_magnifications, call, min_mag, max_mag,
                   error, heavier, call_heavier, peak, peak_heavier>>

\* Lines 220-266.
Finish ==
    /\ pc = "frames"
    /\ t >= orbital_period
    /\ pc' = "done"
    /\ UNCHANGED <<orbital_period, planet_mass_ratio, observer_angle_deg, observer_pos,
                   t_val, planet_pos, sampled, all_magnifications, call, min_mag, max_mag,
                   t, frames_data, error, heavier, call_heavier, peak, peak_heavier>>

Next == Setup \/ ComputeSample \/ AxisRange \/ BuildFrame \/ Finish

Spec == Init /\ [][Next]_vars

(***************************************************************************)
(* The script started outside the sliders' ranges: a period or mass ratio  *)
(* that is zero or negative (and small positive periods).                  *)
(***************************************************************************)
MaxCorePeriod == 4
CoreAngles == {0, 90, 217}
CoreMasses == {-1000, 0, 100}
CoreConfigs ==
    { <<p, m, a, m>> : p \in (-1)..MaxCorePeriod, m \in CoreMasses, a \in CoreAngles }
InvalidConfigs == { c \in CoreConfigs : c[1] <= 0 \/ c[2] <= 0 }

InitCore == InitWith(InvalidConfigs)

SpecCore == InitCore /\ [][Next]_vars

(***************************************************************************)
(* calculate_magnification on its own: one call, for an observer at        *)
(* distance 10 from the star, a planet given by its distance along the     *)
(* line of sight and across it, and a mass ratio of the slider's range.    *)
(***************************************************************************)
NumObservers == 3
NumAlong == 7
NumAcross == 8
NumMasses == 4

\* Observers, in whole units.
GridObservers == << <<0, 10>>, <<10, 0>>, <<-6, -8>>, <<8, -6>> >>
\* The planet's distance from the observer along the line of sight, in millionths.
GridAlong == << 5000000, 500000, 999000, 1001000, 10999000, 11001000, 15000000, 3000000 >>
\* The planet's distance from the line of sight, in millionths (signed: the side).
GridAcross == << 0, 20, 30, 5000, 14900, 15100, 50000, -5000, 100 >>
\* Mass ratios, in millionths.
GridMasses == << 1000, 100, 2000, 1, 500 >>

Take(seq, n) == { seq[i] : i \in 1..n }

\* The point at distance along from observer o towards the star and across to its side.
GridPoint(o, along, across) ==
    << Dec(o[1] * 10^6 + (across * o[2] - along * o[1]) \div 10, 10^6),
       Dec(o[2] * 10^6 - (across * o[1] + along * o[2]) \div 10, 10^6) >>

InitFn ==
    /\ pc = "call"
    /\ \E o \in Take(GridObservers, NumObservers) :
       \E along \in Take(GridAlong, NumAlong) :
       \E across \in Take(GridAcross, NumAcross) :
           /\ observer_pos = <<FromInt(o[1]), FromInt(o[2])>>
           /\ planet_pos = GridPoint(o, along, across)
    /\ \E m \in Take(GridMasses, NumMasses) :
           /\ planet_mass_ratio = MassRatio(m)
           /\ heavier = MassRatio(m)
    /\ orbital_period = 0
    /\ observer_angle_deg = 0
    /\ t_val = 0
    /\ sampled = <<>>
    /\ all_magnifications = <<>>
    /\ call = NoCall
    /\ min_mag = Zero
    /\ max_mag = Zero
    /\ t = 0
    /\ frames_data = <<>>
    /\ error = ""
    /\ call_heavier = NoCall
    /\ peak = Zero
    /\ peak_heavier = Zero

\* Lines 25-118: the call and its return.
Invoke ==
    /\ pc = "call"
    /\ \E planet \in {planet_pos} :
       \E c \in {Call(planet, observer_pos, star_pos, planet_mass_ratio)} :
           /\ call' = c
           /\ sampled' = <<planet>>
    /\ pc' = "returned"
    /\ UNCHANGED <<orbital_period, planet_mass_ratio, observer_angle_deg, observer_pos,
                   t_val, planet_pos, all_magnifications, min_mag, max_mag, t,
                   frames_data, error, heavier, call_heavier, peak, peak_heavier>>

NextFn == Invoke

SpecFn == InitFn /\ [][NextFn]_vars

(***************************************************************************)
(* Properties                                                              *)
(***************************************************************************)
\* 2^-24: the rounding error allowed where a value is compared with a real number.
Tolerance == MkFloat(1, -24)
Close(a, b) == FLe(FAbs(FSub(a, b)), Tolerance)

Done == pc = "done"
Called == call # NoCall

\* C1: every value calculate_magnification returns in a run within the
\* sliders' ranges is at least 1.0, so no sample of all_magnifications is
\* below the baseline.
MagnificationAtLeastOne ==
    /\ Called => FGe(call.result, One)
    /\ all_magnifications # <<>> =>
           all_magnifications[Len(all_magnifications)] = call.result
    /\ Done => \A i \in 1..Len(all_magnifications) : FGe(all_magnifications[i], One)

\* A call that went on to amplify and returned more than the baseline.
AmplifiedSample == Called /\ call.ret = 118 /\ FGt(call.result, One)

\* The samples above the baseline by more than Epsilon, and the first indices
\* of the contiguous runs of them.
Epsilon == Zero
Elevated(x) == FGt(x, FAdd(One, Epsilon))
RunStarts(seq) ==
    { i \in 1..Len(seq) : Elevated(seq[i]) /\ (i = 1 \/ ~Elevated(seq[i - 1])) }

\* C2: the samples of one orbit contain exactly one contiguous run of
\* elevated samples: at least one elevated sample and no second run.
SinglePeakPerOrbit == Done => Cardinality(RunStarts(all_magnifications)) = 1

\* The sliders' defaults: period 400, mass ratio 0.0001, observer at 90 degrees.
DefaultScenario ==
    /\ orbital_period = 400
    /\ planet_mass_ratio = MassRatio(100)
    /\ observer_angle_deg = 90

\* C3 (as amended): in the default scenario the 400 samples are the baseline
\* 1.0 except for one, at t = 100, where the planet is at (0, +R_ORBIT), at
\* 90 degrees, between the observer at (0, +10) and the star; that sample is
\* 1 + 0.15 * (0.0001 / 0.001) = 1.015.
ScenarioPeakAtObserverSide ==
    (DefaultScenario /\ Done) =>
        /\ Len(all_magnifications) = 400
        /\ Close(observer_pos[1], Zero) /\ Close(observer_pos[2], FromInt(10))
        /\ \A i \in 1..400 : i # 101 => all_magnifications[i] = One
        /\ Close(all_magnifications[101], Dec(1015, 1000))
        /\ Close(sampled[101][1], Zero) /\ Close(sampled[101][2], R_ORBIT)
        /\ Close(sampled[301][1], Zero) /\ Close(sampled[301][2], FNeg(R_ORBIT))

DefaultScenarioDone == DefaultScenario /\ Done

\* C3 (as stated): in the default scenario the bump peaks where the planet is
\* at about 270 degrees, (0, -R_ORBIT), about t = 300.
ScenarioPeakAtFarSide ==
    (DefaultScenario /\ Done) =>
        \E i \in 291..311 :
            /\ Elevated(all_magnifications[i])
            /\ all_magnifications[i] = PyMaxOf(all_magnifications)

\* C5: with a heavier planet and all else equal no call returns less, and the
\* largest sample of the orbit is not smaller.
MonotonicInMass ==
    /\ peak # Zero => Called /\ FGe(peak, call.result) /\ FGe(peak_heavier, call_heavier.result)
    /\ Done => peak = PyMaxOf(all_magnifications)
    /\ FLt(planet_mass_ratio, heavier) =>
           /\ Called => FLe(call.result, call_heavier.result)
           /\ FLe(peak, peak_heavier)

\* An orbit whose peak is strictly higher with the heavier planet.
HigherPeakWhenHeavier ==
    Done /\ FLt(planet_mass_ratio, heavier) /\ FGt(peak, One) /\ FLt(peak, peak_heavier)

\* C8: a run makes exactly orbital_period samples, for t = 0, 1, ... in
\* order; sample t is taken with the planet on the circle of radius R_ORBIT
\* at angle 2 pi t / orbital_period, and frame t draws that same position.
SamplesAlignedWithFrames ==
    /\ Len(all_magnifications) = Len(sampled)
    /\ pc = "sample" => Len(sampled) = t_val /\ t_val <= orbital_period
    /\ pc \in {"frames", "done"} =>
           Len(sampled) = orbital_period /\ Len(frames_data) = t /\ t <= orbital_period
    /\ sampled # <<>> =>
           /\ sampled[Len(sampled)] = planet_pos
           /\ planet_pos = PlanetPos(Len(sampled) - 1, orbital_period)
           /\ Close(Norm(planet_pos), R_ORBIT)
    /\ frames_data # <<>> =>
           LET i == Len(frames_data)
           IN  /\ frames_data[i].name = i - 1
               /\ frames_data[i].planet = sampled[i]
               /\ frames_data[i].curve = i
    /\ Done =>
           /\ Len(frames_data) = orbital_period
           /\ \A i \in 1..orbital_period : frames_data[i].planet = sampled[i]
           /\ sampled[1] = <<R_ORBIT, Zero>>
           /\ orbital_period % 4 = 0 =>
                  LET q == orbital_period \div 4
                  IN  /\ Close(sampled[q + 1][1], Zero)
                      /\ Close(sampled[q + 1][2], R_ORBIT)
                      /\ Close(sampled[2 * q + 1][1], FNeg(R_ORBIT))
                      /\ Close(sampled[2 * q + 1][2], Zero)

\* A finished run with all its frames.
AllFramesBuilt == Done /\ Len(frames_data) = orbital_period /\ orbital_period >= PeriodMin

\* C10: in every call of the main loop the divisors of lines 30 and 65 are
\* not zero: the observer is at distance 10 from the star and the planet at
\* distance 5 or more from the observer.  The function itself does not guard
\* them: called with the observer at the star, line 30 divides 0 by 0.
DivisorsNonZero ==
    /\ Called =>
           /\ ~IsNaN(call.norm_obs_to_star) /\ call.norm_obs_to_star.m # 0
           /\ Close(call.norm_obs_to_star, FromInt(10))
           /\ ~IsNaN(call.norm_obs_to_planet) /\ call.norm_obs_to_planet.m # 0
           /\ FGe(call.norm_obs_to_planet, FSub(FromInt(5), Tolerance))
           /\ ~IsNaN(call.unit_obs_to_star[1]) /\ ~IsNaN(call.unit_obs_to_star[2])
           /\ ~IsNaN(call.dot_product)
    /\ pc = "setup" =>
           LET s == L30(L29(Enter(star_pos, star_pos, star_pos, planet_mass_ratio)))
           IN  s.norm_obs_to_star = Zero /\ IsNaN(s.unit_obs_to_star[1])

\* A call with the planet at its nearest to the observer.
PlanetNearestObserver ==
    Called /\ call.norm_obs_to_planet.m # 0 /\ Close(call.norm_obs_to_planet, FromInt(5))

\* A call made on its own has returned; RawU is the impact parameter of line
\* 55, before the floor of line 93 overwrites the local.
Returned == pc = "returned"
RawU == FDiv(call.perpendicular_dist, call.einstein_radius_visual_proxy)

\* C6: whenever u = perpendicular_dist / einstein_radius_visual_proxy is more
\* than 3.0 the call returns exactly 1.0, also when the alignment gate passed.
HardCutoff == (Returned /\ FGt(RawU, CutoffU)) => call.result = One

\* A call that passed the gate, with u beyond the cutoff, returned from line 118.
CutoffAfterGate ==
    Returned /\ call.gate /\ FGt(RawU, CutoffU) /\ call.ret = 118 /\ call.result = One

\* The configured maximum of C7 for a mass ratio: 1 + 0.15 * (m / 0.001).
Cap(m) == FAdd(One, FMul(Dec(15, 100), FDiv(m, ReferenceMassRatio)))

\* C7: for every planet position and every mass ratio in the slider's range
\* the result is a number not above 1 + 0.15 * (mass_ratio / 0.001), hence not
\* above 1.30; when the gate passes and u <= 0.005, u = 0 included, the result
\* is that maximum, and u is never the divisor 0 of lines 96 and 107.
FloorBoundsPeak ==
    Returned =>
        /\ ~IsNaN(call.result)
        /\ FLe(call.result, FAdd(Cap(planet_mass_ratio), Tolerance))
        /\ FLe(call.result, FAdd(Dec(130, 100), Tolerance))
        /\ call.gate =>
               /\ FGe(call.u, MinU) /\ ~IsNaN(call.base_u_mag)
               /\ FLe(RawU, MinU) => Close(call.result, Cap(planet_mass_ratio))

\* A call with the planet exactly on the line of sight, inside the gate.
OnLineOfSight ==
    /\ Returned /\ call.gate /\ call.perpendicular_dist = Zero
    /\ Close(call.result, Cap(planet_mass_ratio)) /\ FGt(call.result, Dec(11, 10))

\* C9: the call returns exactly 1.0, from line 89, unless the angle between
\* the two directions is below 0.5 degrees and 0.1 d < projection < 1.1 d; so
\* a planet beyond the star (projection about 1.5 d) gets 1.0 even at
\* distance zero from the sight line.
GateFailsToBaseline ==
    Returned =>
        /\ call.gate <=>
               /\ FLt(call.alignment_angle, Radians(Half))
               /\ FLt(FMul(Dec(1, 10), call.dist_obs_to_star), call.proj_on_los_length)
               /\ FLt(call.proj_on_los_length, FMul(Dec(11, 10), call.dist_obs_to_star))
        /\ ~call.gate => call.ret = 89 /\ call.result = One
        /\ FGt(call.proj_on_los_length, FMul(Dec(14, 10), call.dist_obs_to_star)) =>
               call.result = One

\* A call with the planet beyond the star, on the sight line.
BeyondStarOnSightLine ==
    /\ Returned /\ call.ret = 89 /\ call.result = One
    /\ FLe(call.perpendicular_dist, Tolerance)
    /\ FLt(call.alignment_angle, Radians(Half))
    /\ FGt(call.proj_on_los_length, FMul(Dec(14, 10), call.dist_obs_to_star))

=============================================================================
